---- MODULE Spec2Model ----
(***************************************************************************)
(* Chunked upload coordination (app/content/controller.py) and the merge   *)
(* and ingest pipeline it launches (celery_app/tasks.py, utils.py).        *)
(* Signup (app/auth/controller.py) keeps its own collection and requests.  *)
(*                                                                         *)
(* Strings are sequences of one-character strings; an opaque text (a uuid, *)
(* a status word, a CSV line) is one token.  Redis holds string values     *)
(* only, so every number passes through StrOfInt / IntOfStr at the store's *)
(* boundary, as the code does with str(v) and int(v) if v.isdigit().       *)
(***************************************************************************)
EXTENDS Integers, Sequences, FiniteSets, TLC

\* ------------------------------------------------------------- bounds
\* client requests (init_upload and create_chunk calls) issued in one run
MaxReq == 3
\* largest total_chunks a client asks init_upload for
MaxTotal == 2
\* the uuid4 values that may be drawn, in the order they are drawn
FileIdPool == <<"f1", "f2">>
\* sessions created in one run
MaxSessions == Len(FileIdPool)

\* CHUNK_SIZE: rows per batch read from the merged CSV
CHUNK_SIZE == 2

Reqs == 1..MaxReq
Workers == {"w1"}
FileIds == {<<FileIdPool[i]>> : i \in 1..MaxSessions}
\* a well formed id for which no session was ever created
UnknownId == <<"f0">>
ChunkIds == {<<"9">>, <<"1", "0">>}
\* the session Spec follows: its clients open one session
FirstId == <<FileIdPool[1]>>
\* a chunk_id that names a file in the directory of the first session
ForeignChunkId == <<"..", "/", FileIdPool[1], "/", "9">>
\* every request carries its own one-row CSV with header
Rows == <<"a", "b", "c", "d", "e", "f">>
PayloadOf(r) == <<"h", Rows[r]>>
TotalArgs == (-1)..MaxTotal
\* the emails and the password the signup clients send
Emails == {<<"a@x">>, <<"b@x">>}
Passwords == {<<"pw">>}

NotStarted == <<"Not Started">>
Processing == <<"Processing">>
Completed == <<"Completed">>

VARIABLES
    redis,      \* the session store: key -> hash of string fields
    chunkStore, \* UPLOAD_DIR: directory (file id) -> chunk name -> payload
    merged,     \* MERGE_DIR: file id -> lines of <file id>.csv
    mongo,      \* movies_collection: the rows inserted, in order
    queue,      \* broker: file id -> process_chunks jobs waiting
    req,        \* the client requests: what was asked, where the handler is (retried:
                \* the retry loop is past its first iteration), its answer
    wk,         \* the workers running process_chunks
    enqueued,   \* history: file id -> process_chunks.delay calls so far
    touched,    \* history: file ids whose record a pipeline job has written
    users,      \* users collection: the records inserted, in order
    su          \* the signup requests: what was asked, where the handler is, its answer

vars == <<redis, chunkStore, merged, mongo, queue, req, wk, enqueued, touched, users, su>>

\* ------------------------------------------------- strings and numbers
Digits == {"0", "1", "2", "3", "4", "5", "6", "7", "8", "9"}
DigitSeq == <<"0", "1", "2", "3", "4", "5", "6", "7", "8", "9">>

\* str.isdigit(): non-empty and every character a digit
IsDigit(s) == Len(s) > 0 /\ \A i \in 1..Len(s) : s[i] \in Digits

DigitVal(c) == (CHOOSE i \in 1..10 : DigitSeq[i] = c) - 1

RECURSIVE IntOfStr(_)
\* int(s) of a digit string
IntOfStr(s) ==
    IF Len(s) = 0 THEN 0
    ELSE 10 * IntOfStr(SubSeq(s, 1, Len(s) - 1)) + DigitVal(s[Len(s)])

RECURSIVE StrOfNat(_)
StrOfNat(n) ==
    IF n < 10 THEN <<DigitSeq[n + 1]>>
    ELSE StrOfNat(n \div 10) \o <<DigitSeq[(n % 10) + 1]>>

\* str(n) of an integer
StrOfInt(n) == IF n < 0 THEN <<"-">> \o StrOfNat(-n) ELSE StrOfNat(n)

PyInt(n) == [t |-> "int", v |-> n]
PyStr(s) == [t |-> "str", v |-> s]

\* int(v) if v.isdigit() else v
Convert(s) == IF IsDigit(s) THEN PyInt(IntOfStr(s)) ELSE PyStr(s)

ToStrPadded(pv) == IF pv.t = "int" THEN <<"0">> \o StrOfInt(pv.v) ELSE pv.v

\* str(v)
ToStr(pv) == IF pv.t = "int" THEN StrOfInt(pv.v) ELSE pv.v

\* {k: int(v) if v.isdigit() else v for k, v in file_metadata.items()}
ConvertMeta(h) == [k \in DOMAIN h |-> Convert(h[k])]

\* {k: str(v) for k, v in file_metadata.items()}
StrMeta(m) == [k \in DOMAIN m |-> ToStr(m[k])]

\* -------------------------------------------------------------- redis
Exists(key) == key \in DOMAIN redis

\* HGETALL: the empty hash for a missing key
EmptyHash == [k \in {} |-> <<>>]
HGetAll(key) == IF Exists(key) THEN redis[key] ELSE EmptyHash

\* HSET key mapping: the fields given are written, the others kept
HSet(key, mapping) ==
    LET old == HGetAll(key)
        new == [k \in DOMAIN old \cup DOMAIN mapping |->
                    IF k \in DOMAIN mapping THEN mapping[k] ELSE old[k]]
    IN  [k \in DOMAIN redis \cup {key} |-> IF k = key THEN new ELSE redis[k]]

\* WATCH: a write to the key makes the EXEC of every connection watching it fail
InWatch(r) == req[r].pc \in {"read", "exec"}
Invalidate(key, rs) ==
    [r \in Reqs |->
        IF r \in rs /\ InWatch(r) /\ req[r].file_id = key
        THEN [req[r] EXCEPT !.dirty = TRUE]
        ELSE req[r]]

IdleReq == [pc |-> "idle", op |-> "none", total |-> 0, file_id |-> <<>>,
            chunk_id |-> <<>>, payload |-> <<>>, meta |-> EmptyHash, dirty |-> FALSE,
            retried |-> FALSE, code |-> 0]
IdleSignup == [pc |-> "idle", email |-> <<>>, password |-> <<>>, code |-> 0]
IdleWorker == [pc |-> "idle", file_id |-> <<>>, files |-> <<>>, path |-> "none",
               meta |-> EmptyHash, failed |-> {}]

Init ==
    /\ redis = [k \in {} |-> EmptyHash]
    /\ chunkStore = [k \in {} |-> EmptyHash]
    /\ merged = [k \in {} |-> <<>>]
    /\ mongo = <<>>
    /\ queue = [f \in FileIds |-> 0]
    /\ req = [r \in Reqs |-> IdleReq]
    /\ wk = [w \in Workers |-> IdleWorker]
    /\ enqueued = [f \in FileIds |-> 0]
    /\ touched = {}
    /\ users = <<>>
    /\ su = [r \in Reqs |-> IdleSignup]

\* -------------------------------------------------------- init_upload

\* Request slots are interchangeable: slot r is used after slot r - 1.
SlotFree(r) == req[r].pc = "idle" /\ (IF r = 1 THEN TRUE ELSE req[r - 1].pc # "idle")

\* total_chunks = 0 is accepted: the check reads total_chunks < 0
InvalidTotalNegativeOnly(total) == total < 0

\* if total_chunks < 1
InvalidTotal(total) == total < 1

\* the uuid4 drawn is the id of an existing session
NewFileIdCollides == FirstId

\* str(uuid4()): an id no session has
NewFileId == <<FileIdPool[Cardinality(DOMAIN redis) + 1]>>

\* file_data: the record of a new session
FileData(file_id, total) ==
    [file_id |-> file_id,
     total_chunks |-> StrOfInt(total),
     chunks_uploaded |-> StrOfInt(0),
     status |-> NotStarted]

InitUpload(r, total) ==
    /\ SlotFree(r)
    /\ IF InvalidTotal(total)
       THEN /\ req' = [req EXCEPT ![r] = [IdleReq EXCEPT !.pc = "done", !.op = "init",
                                                         !.total = total, !.code = 400]]
            /\ UNCHANGED redis
       ELSE /\ Cardinality(DOMAIN redis) < MaxSessions
            /\ LET file_id == NewFileId
                   file_data == FileData(file_id, total)
               IN  /\ redis' = HSet(file_id, file_data)
                   /\ req' = [req EXCEPT ![r] = [IdleReq EXCEPT !.pc = "done", !.op = "init",
                                                                !.total = total, !.code = 201,
                                                                !.file_id = file_id]]
    /\ UNCHANGED <<chunkStore, merged, mongo, queue, wk, enqueued, touched, users, su>>

\* --------------------------------------------------------- get_status
\* every id is answered as found
NotFoundNever(file_metadata) == FALSE

\* if not file_metadata
NotFound(file_metadata) == file_metadata = EmptyHash

\* file_metadata = redis_store.hgetall(file_id); the answer's code is kept
GetStatus(r, file_id) ==
    /\ SlotFree(r)
    /\ LET file_metadata == HGetAll(file_id)
       IN  req' = [req EXCEPT ![r] = [IdleReq EXCEPT
                                        !.pc = "done", !.op = "status", !.file_id = file_id,
                                        !.code = IF NotFound(file_metadata) THEN 404 ELSE 200]]
    /\ UNCHANGED <<redis, chunkStore, merged, mongo, queue, wk, enqueued, touched, users, su>>

\* ------------------------------------------------------- create_chunk
\* Statements that touch different stores and are not observed in between
\* are taken in one step: the checks with makedirs, save with the first
\* WATCH, HGETALL with delay, a failed EXEC with the WATCH of the retry.

\* a form field or file part that was not sent
Missing == <<>>

Answer(r, code) ==
    req' = [req EXCEPT ![r] = [IdleReq EXCEPT !.pc = "done", !.op = "chunk", !.code = code,
                                              !.file_id = req[r].file_id,
                                              !.chunk_id = req[r].chunk_id]]

\* os.makedirs(file_dir, exist_ok=True)
MakeDirs(f) == IF f \in DOMAIN chunkStore THEN chunkStore ELSE (f :> EmptyHash) @@ chunkStore

\* the file part is not looked at
MissingFieldIdsOnly(file_id, chunk_id, file_chunk) == file_id = Missing \/ chunk_id = Missing

\* if not file_id or not chunk_id or not file_chunk
MissingField(file_id, chunk_id, file_chunk) ==
    file_id = Missing \/ chunk_id = Missing \/ file_chunk = Missing

\* every file_id is taken for a session
InvalidFileIdNever(file_id) == FALSE

\* if not redis_store.exists(file_id)
InvalidFileId(file_id) == ~Exists(file_id)

\* the request arrives: the inputs are validated, EXISTS file_id, makedirs
CC_Start(r, file_id, chunk_id, file_chunk) ==
    /\ SlotFree(r)
    /\ IF MissingField(file_id, chunk_id, file_chunk)
       THEN /\ req' = [req EXCEPT ![r] = [IdleReq EXCEPT !.pc = "done", !.op = "chunk",
                                                         !.code = 400]]
            /\ UNCHANGED chunkStore
       ELSE IF InvalidFileId(file_id)
       THEN /\ req' = [req EXCEPT ![r] = [IdleReq EXCEPT !.pc = "done", !.op = "chunk",
                                                         !.code = 404,
                                                         !.file_id = file_id]]
            /\ UNCHANGED chunkStore
       ELSE /\ req' = [req EXCEPT ![r] = [IdleReq EXCEPT !.pc = "save", !.op = "chunk",
                                                         !.file_id = file_id,
                                                         !.chunk_id = chunk_id,
                                                         !.payload = file_chunk]]
            /\ chunkStore' = MakeDirs(file_id)
    /\ UNCHANGED <<redis, merged, mongo, queue, wk, enqueued, touched, users, su>>

RECURSIVE Components(_)
\* the components of a path: path.split('/')
Components(s) ==
    IF Len(s) = 0 THEN << <<>> >>
    ELSE LET before == Components(SubSeq(s, 1, Len(s) - 1))
         IN  IF s[Len(s)] = "/" THEN Append(before, <<>>)
             ELSE [before EXCEPT ![Len(before)] = Append(@, s[Len(s)])]

RECURSIVE Walk(_, _)
\* the file system follows a path component by component: .. is the parent
Walk(at, comps) ==
    IF Len(comps) = 0 THEN at
    ELSE LET c == Head(comps)
             next == IF c = <<"..">> THEN SubSeq(at, 1, Len(at) - 1)
                     ELSE IF c = <<>> \/ c = <<".">> THEN at
                     ELSE Append(at, c)
         IN  Walk(next, Tail(comps))

\* chunk_path = os.path.join(file_dir, chunk_id), below UPLOAD_DIR: the
\* directory and the file that open(chunk_path, "wb") reaches
ChunkPath(file_id, chunk_id) == Walk(<<file_id>>, Components(chunk_id))

\* the first upload of a name is kept
SaveChunkKeepFirst(dir, name, payload) == dir @@ (name :> payload)

\* open(dst, "wb") and the copy: the file holds the payload written last
SaveChunk(dir, name, payload) == (name :> payload) @@ dir

\* file_chunk.save(chunk_path): fails when a directory of the path is not
\* there; then pipe.watch(file_id)
CC_Save(r) ==
    /\ req[r].pc = "save"
    /\ LET f == req[r].file_id
           path == ChunkPath(f, req[r].chunk_id)
       IN  IF f \notin DOMAIN chunkStore \/ Len(path) # 2
           THEN Answer(r, 500) /\ UNCHANGED chunkStore
           ELSE IF path[1] \notin DOMAIN chunkStore
           THEN Answer(r, 500) /\ UNCHANGED chunkStore
           ELSE /\ chunkStore' = [chunkStore EXCEPT
                                    ![path[1]] = SaveChunk(@, path[2], req[r].payload)]
                /\ req' = [req EXCEPT ![r].pc = "read", ![r].dirty = FALSE]
    /\ UNCHANGED <<redis, merged, mongo, queue, wk, enqueued, touched, users, su>>

\* file_metadata["chunks_uploaded"] += 1, and the status once all chunks are counted
Increment(m) ==
    LET n == [m EXCEPT !.chunks_uploaded = PyInt(m.chunks_uploaded.v + 1)]
    IN  IF n.chunks_uploaded = n.total_chunks
        THEN [n EXCEPT !.status = PyStr(Processing)]
        ELSE n

\* the branch that calls process_chunks.delay(file_id)
Triggers(m) == Increment(m).chunks_uploaded = Increment(m).total_chunks

\* pipe.hgetall(file_id), the conversion, the increment and, when all chunks
\* are counted, process_chunks.delay(file_id)
CC_Read(r) ==
    /\ req[r].pc = "read"
    /\ LET f == req[r].file_id
           m == ConvertMeta(HGetAll(f))
       IN  IF "chunks_uploaded" \notin DOMAIN m \/ m.chunks_uploaded.t # "int"
           THEN Answer(r, 500) /\ UNCHANGED <<queue, enqueued>>
           ELSE /\ req' = [req EXCEPT ![r].meta = Increment(m), ![r].pc = "exec"]
                /\ IF Triggers(m)
                   THEN /\ queue' = [queue EXCEPT ![f] = @ + 1]
                        /\ enqueued' = [enqueued EXCEPT ![f] = @ + 1]
                   ELSE UNCHANGED <<queue, enqueued>>
    /\ UNCHANGED <<redis, chunkStore, merged, mongo, wk, touched, users, su>>

\* pipe.watch or pipe.hgetall raises a RedisError: the handler answers 500
CC_ReadFails(r) ==
    /\ req[r].pc = "read"
    /\ Answer(r, 500)
    /\ UNCHANGED <<redis, chunkStore, merged, mongo, queue, wk, enqueued, touched, users, su>>

\* EXEC goes through although the watched key was written
WatchNeverFails(r) == FALSE

\* pipe.execute() raises WatchError: the key was written after pipe.watch
WatchFailed(r) == req[r].dirty

\* pipe.multi(); pipe.hset(...); pipe.execute(): on WatchError the loop
\* starts again with pipe.watch(file_id)
CC_Exec(r) ==
    /\ req[r].pc = "exec"
    /\ IF WatchFailed(r)
       THEN /\ req' = [req EXCEPT ![r].pc = "read", ![r].meta = EmptyHash,
                                  ![r].dirty = FALSE, ![r].retried = TRUE]
            /\ UNCHANGED redis
       ELSE /\ redis' = HSet(req[r].file_id, StrMeta(req[r].meta))
            /\ req' = [Invalidate(req[r].file_id, Reqs \ {r}) EXCEPT
                          ![r] = [IdleReq EXCEPT !.pc = "done", !.op = "chunk", !.code = 201,
                                                 !.file_id = req[r].file_id,
                                                 !.chunk_id = req[r].chunk_id]]
    /\ UNCHANGED <<chunkStore, merged, mongo, queue, wk, enqueued, touched, users, su>>

\* the transaction is applied although its EXEC raised
FailedExecWrites(key, mapping) == HSet(key, mapping)

\* the store after a pipe.execute() that raised: the queued HSET was not run
FailedExec(key, mapping) == redis

\* pipe.multi, pipe.hset or pipe.execute raises a RedisError other than
\* WatchError: the handler answers 500
CC_ExecFails(r) ==
    /\ req[r].pc = "exec"
    /\ redis' = FailedExec(req[r].file_id, StrMeta(req[r].meta))
    /\ Answer(r, 500)
    /\ UNCHANGED <<chunkStore, merged, mongo, queue, wk, enqueued, touched, users, su>>

\* ------------------------------------------------------ merge_chunks
RECURSIVE SplitLast(_)
\* s.split('_')[-1]: what follows the last underscore
SplitLast(s) ==
    IF Len(s) = 0 THEN <<>>
    ELSE IF s[Len(s)] = "_" THEN <<>>
    ELSE SplitLast(SubSeq(s, 1, Len(s) - 1)) \o <<s[Len(s)]>>

RECURSIVE LexicalKey(_)
\* the chunk files sorted as text: a number that orders names as strings do
LexicalKey(s) ==
    IF Len(s) = 0 THEN 0
    ELSE (DigitVal(s[1]) + 1) * 100 + LexicalKey(Tail(s)) \div 11

\* sorted(chunk_files) without the numeric key
ChunkKeyLexical(name) == LexicalKey(SplitLast(name))

\* key=lambda x: int(os.path.basename(x).split('_')[-1])
ChunkKey(name) == IntOfStr(SplitLast(name))

\* int() raises ValueError on anything but a number
HasKey(name) == IsDigit(SplitLast(name))

RECURSIVE InsertByKey(_, _)
InsertByKey(sorted, name) ==
    IF Len(sorted) = 0 THEN <<name>>
    ELSE IF ChunkKey(sorted[Len(sorted)]) <= ChunkKey(name) THEN Append(sorted, name)
    ELSE Append(InsertByKey(SubSeq(sorted, 1, Len(sorted) - 1), name), sorted[Len(sorted)])

RECURSIVE SortedByKey(_)
\* sorted(chunk_files, key=...): stable, ascending
SortedByKey(listing) ==
    IF Len(listing) = 0 THEN <<>>
    ELSE InsertByKey(SortedByKey(SubSeq(listing, 1, Len(listing) - 1)), listing[Len(listing)])

\* os.listdir: the names of a directory, in arbitrary order
ListDir(dir) ==
    LET names == DOMAIN dir
        n == Cardinality(names)
    IN  {l \in [1..n -> names] : \A i, j \in 1..n : l[i] = l[j] => i = j}

\* the first listed chunk that is not on disk (Len + 1: none)
FirstGone(f, files) ==
    LET gone == {i \in 1..Len(files) :
                    f \notin DOMAIN chunkStore \/ files[i] \notin DOMAIN chunkStore[f]}
    IN  IF gone = {} THEN Len(files) + 1 ELSE CHOOSE i \in gone : \A j \in gone : i <= j

RECURSIVE ReadAll(_, _, _)
\* outfile.write(infile.read()) for the first n listed chunks
ReadAll(f, files, n) ==
    IF n = 0 THEN <<>>
    ELSE ReadAll(f, files, n - 1) \o chunkStore[f][files[n]]

\* merge_chunks returned None and the job reads the CSV all the same
MergeFailedGoesOn(w) == wk' = [wk EXCEPT ![w].pc = "csv"]

\* merge_chunks returned None: pd.read_csv(None) raises and the job ends
MergeFailed(w) == wk' = [wk EXCEPT ![w] = IdleWorker]

\* the files of a chunk directory (none when it does not exist)
Dir(f) == IF f \in DOMAIN chunkStore THEN chunkStore[f] ELSE EmptyHash

\* a directory without files is merged like any other
NoChunksMissingOnly(f) == f \notin DOMAIN chunkStore

\* a directory that is not there is read as an empty one
NoChunksEmptyOnly(f) == f \in DOMAIN chunkStore /\ DOMAIN chunkStore[f] = {}

\* not os.path.exists(chunks_directory) ..., or not chunk_files
NoChunks(f) == f \notin DOMAIN chunkStore \/ DOMAIN chunkStore[f] = {}

\* the job is taken from the broker; get_metadata(file_id); merge_chunks
\* checks the directory, lists it and sorts the listing
W_Start(w, f) ==
    /\ wk[w].pc = "idle"
    /\ queue[f] > 0
    /\ queue' = [queue EXCEPT ![f] = @ - 1]
    /\ IF HGetAll(f) = EmptyHash
       THEN wk' = [wk EXCEPT ![w] = IdleWorker]
       ELSE IF NoChunks(f)
       THEN MergeFailed(w)
       ELSE IF \E c \in DOMAIN Dir(f) : ~HasKey(c)
       THEN MergeFailed(w)
       ELSE \E listing \in ListDir(Dir(f)) :
                wk' = [wk EXCEPT ![w] = [IdleWorker EXCEPT !.pc = "m_write",
                                                           !.file_id = f,
                                                           !.files = SortedByKey(listing)]]
    /\ UNCHANGED <<redis, chunkStore, merged, mongo, req, enqueued, touched, users, su>>

\* open(output_file, "wb") and the copy of every listed chunk
M_Write(w) ==
    /\ wk[w].pc = "m_write"
    /\ LET f == wk[w].file_id
           files == wk[w].files
           k == FirstGone(f, files)
       IN  /\ merged' = (f :> ReadAll(f, files, k - 1)) @@ merged
           /\ IF k <= Len(files)
              THEN MergeFailed(w)
              ELSE wk' = [wk EXCEPT ![w].pc = "m_remove"]
    /\ UNCHANGED <<redis, chunkStore, mongo, queue, req, enqueued, touched, users, su>>

\* the files are removed and the directory stays
AfterRmdirKept(f) == [chunkStore EXCEPT ![f] = EmptyHash]

\* UPLOAD_DIR after os.rmdir(chunks_directory)
AfterRmdir(f) == [d \in DOMAIN chunkStore \ {f} |-> chunkStore[d]]

\* os.remove of every listed chunk, then os.rmdir of the directory
M_Remove(w) ==
    /\ wk[w].pc = "m_remove"
    /\ LET f == wk[w].file_id
           files == wk[w].files
           k == FirstGone(f, files)
           removed == {files[i] : i \in 1..(k - 1)}
           left == IF f \in DOMAIN chunkStore
                   THEN [c \in DOMAIN chunkStore[f] \ removed |-> chunkStore[f][c]]
                   ELSE EmptyHash
       IN  IF f \notin DOMAIN chunkStore
           THEN MergeFailed(w) /\ UNCHANGED chunkStore
           ELSE IF k <= Len(files) \/ DOMAIN left # {}
           THEN /\ chunkStore' = [chunkStore EXCEPT ![f] = left]
                /\ MergeFailed(w)
           ELSE /\ chunkStore' = AfterRmdir(f)
                /\ wk' = [wk EXCEPT ![w].pc = "csv", ![w].path = "merged"]
    /\ UNCHANGED <<redis, merged, mongo, queue, req, enqueued, touched, users, su>>

\* ---------------------------------------------------- process_chunks
RECURSIVE Batches(_)
\* the loop over the batches ends after the first one
BatchesFirstOnly(rows) ==
    IF Len(rows) = 0 THEN <<>>
    ELSE IF Len(rows) <= CHUNK_SIZE THEN <<rows>>
    ELSE <<SubSeq(rows, 1, CHUNK_SIZE)>>

\* pd.read_csv(..., chunksize=CHUNK_SIZE): the data rows, CHUNK_SIZE at a time
Batches(rows) ==
    IF Len(rows) = 0 THEN <<>>
    ELSE IF Len(rows) <= CHUNK_SIZE THEN <<rows>>
    ELSE <<SubSeq(rows, 1, CHUNK_SIZE)>> \o Batches(SubSeq(rows, CHUNK_SIZE + 1, Len(rows)))

RECURSIVE InsertAll(_, _)
\* add_movie_batch_to_mongo for every batch: insert_many(records)
InsertAll(coll, batches) ==
    IF Len(batches) = 0 THEN coll
    ELSE InsertAll(coll \o batches[1], Tail(batches))

\* the first failing insert ends the loop over the batches
SurvivingUntilFailure(batches, bad) ==
    IF bad \cap (1..Len(batches)) = {} THEN batches
    ELSE SubSeq(batches, 1, (CHOOSE i \in bad : \A j \in bad : i <= j) - 1)

RECURSIVE Surviving(_, _)
\* the batches that reach the collection when insert_many raises for the
\* batches numbered in bad: add_movie_batch_to_mongo catches the error and
\* the loop goes on with the next batch
Surviving(batches, bad) ==
    IF Len(batches) = 0 THEN <<>>
    ELSE LET n == Len(batches)
             front == Surviving(SubSeq(batches, 1, n - 1), bad)
         IN  IF n \in bad THEN front ELSE Append(front, batches[n])

\* the merged CSV is read (header=0) and inserted batch by batch, insert_many
\* raising for the batches in bad (wk.failed keeps them); then
\* update_redis_metadata: metadata = redis_store.hgetall(name=file_id)
Ingest(w, bad) ==
    /\ wk[w].pc = "csv"
    /\ LET f == wk[w].file_id
           metadata == HGetAll(f)
       IN  IF f \notin DOMAIN merged
           THEN wk' = [wk EXCEPT ![w] = IdleWorker] /\ UNCHANGED mongo
           ELSE IF Len(merged[f]) = 0
           THEN wk' = [wk EXCEPT ![w] = IdleWorker] /\ UNCHANGED mongo
           ELSE /\ mongo' = InsertAll(mongo, Surviving(Batches(Tail(merged[f])), bad))
                /\ wk' = [wk EXCEPT ![w] = IF metadata = EmptyHash THEN IdleWorker
                                            ELSE [wk[w] EXCEPT !.pc = "u_write",
                                                               !.meta = metadata,
                                                               !.failed = bad]]
    /\ UNCHANGED <<redis, chunkStore, merged, queue, req, enqueued, touched, users, su>>

\* every insert_many goes through
P_Csv(w) == Ingest(w, {})

\* insert_many raises for some of the batches
P_CsvInsertFails(w) ==
    /\ wk[w].pc = "csv"
    /\ wk[w].file_id \in DOMAIN merged
    /\ Len(merged[wk[w].file_id]) > 0
    /\ \E bad \in SUBSET (1..Len(Batches(Tail(merged[wk[w].file_id])))) \ {{}} : Ingest(w, bad)

\* metadata["status"] = status
SetStatus(metadata, status) ==
    [k \in DOMAIN metadata \cup {"status"} |-> IF k = "status" THEN status ELSE metadata[k]]

\* update_redis_metadata: redis_store.hset(name=file_id, mapping=metadata)
U_Write(w) ==
    /\ wk[w].pc = "u_write"
    /\ redis' = HSet(wk[w].file_id, SetStatus(wk[w].meta, Completed))
    /\ req' = Invalidate(wk[w].file_id, Reqs)
    /\ touched' = touched \cup {wk[w].file_id}
    /\ wk' = [wk EXCEPT ![w] = IdleWorker]
    /\ UNCHANGED <<chunkStore, merged, mongo, queue, enqueued, users, su>>

\* ------------------------------------------------------------- signup

\* generate_password_hash(password, method="pbkdf2:sha256")
Hashed(password) == <<"pbkdf2:sha256">> \o password

\* collection.find_one({"email": email}) finds a record
FindOne(email) == \E i \in 1..Len(users) : users[i].email = email

\* Signup slots are interchangeable: slot r is used after slot r - 1.
SignupSlotFree(r) == su[r].pc = "idle" /\ (IF r = 1 THEN TRUE ELSE su[r - 1].pc # "idle")

SignupAnswer(r, email, password, code) ==
    su' = [su EXCEPT ![r] = [pc |-> "done", email |-> email, password |-> password,
                             code |-> code]]

\* signup: the body is parsed, the fields validated, find_one looks the email up
SU_Start(r, email, password) ==
    /\ SignupSlotFree(r)
    /\ IF email = Missing \/ password = Missing
       THEN SignupAnswer(r, email, password, 400)
       ELSE IF FindOne(email)
       THEN SignupAnswer(r, email, password, 409)
       ELSE su' = [su EXCEPT ![r] = [pc |-> "insert", email |-> email,
                                     password |-> password, code |-> 0]]
    /\ UNCHANGED <<redis, chunkStore, merged, mongo, queue, req, wk, enqueued, touched, users>>

\* signup: the password is hashed, insert_one adds the record
SU_Insert(r) ==
    /\ su[r].pc = "insert"
    /\ users' = Append(users, [email |-> su[r].email, password |-> Hashed(su[r].password)])
    /\ su' = [su EXCEPT ![r].pc = "done", ![r].code = 201]
    /\ UNCHANGED <<redis, chunkStore, merged, mongo, queue, req, wk, enqueued, touched>>

\* signup: insert_one raises ConnectionFailure or OperationFailure
SU_InsertFails(r) ==
    /\ su[r].pc = "insert"
    /\ su' = [su EXCEPT ![r].pc = "done", ![r].code = 500]
    /\ UNCHANGED <<redis, chunkStore, merged, mongo, queue, req, wk, enqueued, touched, users>>

\* the clients open one session and send well formed chunk ids
Next ==
    \/ \E r \in Reqs, total \in TotalArgs :
          (InvalidTotal(total) \/ DOMAIN redis = {}) /\ InitUpload(r, total)
    \/ \E r \in Reqs : \E f \in {FirstId, UnknownId, Missing},
          c \in ChunkIds \cup {Missing}, p \in {PayloadOf(r), Missing} :
            CC_Start(r, f, c, p)
    \/ \E r \in Reqs : CC_Save(r)
    \/ \E r \in Reqs : CC_Read(r)
    \/ \E r \in Reqs : CC_Exec(r)
    \/ \E w \in Workers, f \in FileIds : W_Start(w, f)
    \/ \E w \in Workers : M_Write(w)
    \/ \E w \in Workers : M_Remove(w)
    \/ \E w \in Workers : P_Csv(w)
    \/ \E w \in Workers : U_Write(w)

Spec == Init /\ [][Next]_vars

\* ------------------------------------------ several sessions, store faults
\* the store is empty or holds a session that an earlier init_upload opened
InitSessions ==
    /\ redis \in {[k \in {} |-> EmptyHash]}
                \cup {(FirstId :> FileData(FirstId, t)) : t \in 1..MaxTotal}
    /\ chunkStore = [k \in {} |-> EmptyHash]
    /\ merged = [k \in {} |-> <<>>]
    /\ mongo = <<>>
    /\ queue = [f \in FileIds |-> 0]
    /\ req = [r \in Reqs |-> IdleReq]
    /\ wk = [w \in Workers |-> IdleWorker]
    /\ enqueued = [f \in FileIds |-> 0]
    /\ touched = {}
    /\ users = <<>>
    /\ su = [r \in Reqs |-> IdleSignup]

\* the create_chunk handlers that are running
InFlight == {r \in Reqs : req[r].pc \notin {"idle", "done"}}

\* the clients open sessions, ask for the status, and send chunk ids of any
\* text; the session store may fail during a transaction; the server runs
\* one create_chunk handler at a time, next to the pipeline worker
NextSessions ==
    \/ \E r \in Reqs, total \in 1..MaxTotal : InitUpload(r, total)
    \/ \E r \in Reqs, f \in FileIds \cup {UnknownId} : GetStatus(r, f)
    \/ \E r \in Reqs : \E f \in FileIds, c \in {<<"9">>, ForeignChunkId} :
            InFlight = {} /\ CC_Start(r, f, c, PayloadOf(r))
    \/ \E r \in Reqs : CC_Save(r)
    \/ \E r \in Reqs : CC_Read(r)
    \/ \E r \in Reqs : CC_ReadFails(r)
    \/ \E r \in Reqs : CC_Exec(r)
    \/ \E r \in Reqs : CC_ExecFails(r)
    \/ \E w \in Workers, f \in FileIds : W_Start(w, f)
    \/ \E w \in Workers : M_Write(w)
    \/ \E w \in Workers : M_Remove(w)
    \/ \E w \in Workers : P_Csv(w)
    \/ \E w \in Workers : U_Write(w)

SpecSessions == InitSessions /\ [][NextSessions]_vars

\* ------------------------------------------- one session, catalog faults
\* the clients open one session and send its chunks, one create_chunk
\* handler at a time next to the pipeline worker; insert_many may fail
NextIngest ==
    \/ \E r \in Reqs, total \in 1..MaxTotal : DOMAIN redis = {} /\ InitUpload(r, total)
    \/ \E r \in Reqs, c \in ChunkIds :
          InFlight = {} /\ CC_Start(r, FirstId, c, PayloadOf(r))
    \/ \E r \in Reqs : CC_Save(r)
    \/ \E r \in Reqs : CC_Read(r)
    \/ \E r \in Reqs : CC_Exec(r)
    \/ \E w \in Workers, f \in FileIds : W_Start(w, f)
    \/ \E w \in Workers : M_Write(w)
    \/ \E w \in Workers : M_Remove(w)
    \/ \E w \in Workers : P_Csv(w)
    \/ \E w \in Workers : P_CsvInsertFails(w)
    \/ \E w \in Workers : U_Write(w)

SpecIngest == Init /\ [][NextIngest]_vars

\* the signup requests, served concurrently
NextAuth ==
    \/ \E r \in Reqs, email \in Emails \cup {Missing}, password \in Passwords \cup {Missing} :
          SU_Start(r, email, password)
    \/ \E r \in Reqs : SU_Insert(r)
    \/ \E r \in Reqs : SU_InsertFails(r)

SpecAuth == Init /\ [][NextAuth]_vars

\* ============================================================ claims
Sessions == DOMAIN redis
ChunksUploaded(f) == IntOfStr(redis[f].chunks_uploaded)
TotalChunks(f) == IntOfStr(redis[f].total_chunks)
Status(f) == redis[f].status

\* the create_chunk requests that passed validation for session f
ChunkReqs(f) ==
    {r \in Reqs : req[r].op = "chunk" /\ req[r].file_id = f /\ req[r].code \notin {400, 404}}
\* those answered 201: their transaction committed
Committed(f) == {r \in ChunkReqs(f) : req[r].pc = "done" /\ req[r].code = 201}
\* no index is sent twice and no more than total_chunks indices are sent
DistinctUploadsOnly(f) ==
    /\ \A r1, r2 \in ChunkReqs(f) : req[r1].chunk_id = req[r2].chunk_id => r1 = r2
    /\ Cardinality(ChunkReqs(f)) <= TotalChunks(f)
AllUploaded(f) == Cardinality(Committed(f)) = TotalChunks(f)
\* the step in which request r commits its transaction
Commits(r) == req[r].pc = "exec" /\ req'[r].pc = "done" /\ req'[r].code = 201

\* C1: when the total_chunks distinct chunks of a session are uploaded, by
\* any number of concurrent uploaders and with the worker running, the
\* pipeline is enqueued at most once at any time, and exactly once when all
\* uploads are answered.
C1_EnqueuedExactlyOnce ==
    \A f \in Sessions :
        DistinctUploadsOnly(f) =>
            /\ enqueued[f] <= 1
            /\ AllUploaded(f) => enqueued[f] = 1

\* C2: until a pipeline job writes the record, chunks_uploaded equals the
\* number of create_chunk calls on the session whose transaction committed.
C2_CounterCountsCommits ==
    \A f \in Sessions \ touched : ChunksUploaded(f) = Cardinality(Committed(f))

\* C2 witness: two calls on one session have committed and both are counted.
C2_Witness ==
    \E f \in Sessions \ touched :
        /\ Cardinality(Committed(f)) = 2
        /\ ChunksUploaded(f) = 2

\* C3: chunks_uploaded stays between 0 and total_chunks in every state.
C3_CounterWithinTotal ==
    \A f \in Sessions : 0 <= ChunksUploaded(f) /\ ChunksUploaded(f) <= TotalChunks(f)

\* C4: no step decreases the stored chunks_uploaded of a session.
C4_CounterNeverDecreases ==
    [][\A f \in Sessions : ChunksUploaded(f)' >= ChunksUploaded(f)]_vars

\* C5: a session in status Processing or Completed has all its chunks counted.
C5_ProcessingMeansAllCounted ==
    \A f \in Sessions :
        Status(f) \in {Processing, Completed} => ChunksUploaded(f) = TotalChunks(f)

\* C6: a session in status Not Started has no chunk counted.
C6_NotStartedMeansNoneCounted ==
    \A f \in Sessions : Status(f) = NotStarted => ChunksUploaded(f) = 0

\* the numeric value of the chunk indices clients send
IndexValue == (<<"9">> :> 9) @@ (<<"1", "0">> :> 10)

RECURSIVE AscendingConcat(_)
\* the payloads of a directory, lowest numeric index first
AscendingConcat(dir) ==
    IF DOMAIN dir = {} THEN <<>>
    ELSE LET low == CHOOSE c \in DOMAIN dir :
                        \A d \in DOMAIN dir : IndexValue[c] <= IndexValue[d]
         IN  dir[low] \o AscendingConcat([c \in DOMAIN dir \ {low} |-> dir[c]])

\* C7: when the distinct chunks of a session are merged, the artifact that
\* merge_chunks has written holds all total_chunks payloads, in ascending
\* numeric order of their indices (10 after 9), whatever order they came in.
C7_MergedInNumericOrder ==
    [][\A w \in Workers :
          LET f == wk[w].file_id
          IN  (wk[w].pc = "m_write" /\ wk'[w].pc = "m_remove" /\ DistinctUploadsOnly(f)) =>
                  /\ Cardinality(DOMAIN chunkStore[f]) = TotalChunks(f)
                  /\ merged'[f] = AscendingConcat(chunkStore[f])]_vars

\* C7 witness: index 10 was sent by an earlier request than index 9, and the
\* artifact holds the payload of 9 before that of 10.
C7_Witness ==
    \E w \in Workers, r1, r2 \in Reqs :
        /\ wk[w].pc = "m_remove"
        /\ r1 < r2
        /\ req[r1].file_id = wk[w].file_id /\ req[r1].chunk_id = <<"1", "0">>
        /\ req[r2].file_id = wk[w].file_id /\ req[r2].chunk_id = <<"9">>
        /\ req[r1].code = 201 /\ req[r2].code = 201
        /\ merged[wk[w].file_id] = PayloadOf(r2) \o PayloadOf(r1)

\* C8: once the distinct chunks of a session are uploaded and its status has
\* reached Completed, the status stays Completed.
C8_CompletedIsFinal ==
    [][\A f \in Sessions :
          (DistinctUploadsOnly(f) /\ Status(f) = Completed) => Status(f)' = Completed]_vars

\* C9: the transaction of the only chunk upload of a one-chunk session takes
\* the record from (0, Not Started) to (1, Processing) in its one write.
C9_SingleChunkCommit ==
    [][\A r \in Reqs :
          LET f == req[r].file_id
          IN  (Commits(r) /\ TotalChunks(f) = 1 /\ ChunkReqs(f) = {r}) =>
                  /\ ChunksUploaded(f) = 0 /\ Status(f) = NotStarted
                  /\ ChunksUploaded(f)' = 1 /\ Status(f)' = Processing]_vars

C11_InitCreatesOneSession ==
    [][\A r \in Reqs :
          (req[r].pc = "idle" /\ req'[r].op = "init" /\ req'[r].total >= 1) =>
              \E id \in FileIds :
                  /\ req'[r].code = 201
                  /\ id \notin DOMAIN redis
                  /\ DOMAIN redis' = DOMAIN redis \cup {id}
                  /\ IsDigit(redis'[id].total_chunks)
                  /\ IntOfStr(redis'[id].total_chunks) = req'[r].total
                  /\ redis'[id].chunks_uploaded = <<"0">>
                  /\ redis'[id].status = NotStarted
                  /\ \A g \in DOMAIN redis : redis'[g] = redis[g]]_vars

\* C11 witness: a second session was opened while the first one, with a chunk
\* counted, existed.
C11_Witness ==
    \E r \in Reqs :
        /\ req[r].op = "init" /\ req[r].code = 201 /\ req[r].file_id # FirstId
        /\ req[r].file_id \in Sessions
        /\ FirstId \in Sessions /\ ChunksUploaded(FirstId) >= 1

\* C12: get_status for an id that has no session answers 404, whatever other
\* sessions exist, and no get_status call changes the session store, the
\* chunk store or the job queue.
C12_StatusUnknownIs404 ==
    [][\A r \in Reqs :
          (req[r].pc = "idle" /\ req'[r].op = "status") =>
              /\ req'[r].file_id \notin DOMAIN redis => req'[r].code = 404
              /\ redis' = redis /\ chunkStore' = chunkStore /\ queue' = queue]_vars

\* C12 witness: an unknown id was answered 404 while two sessions existed, one
\* of them with a stored chunk.
C12_Witness ==
    \E r \in Reqs :
        /\ req[r].op = "status" /\ req[r].file_id = UnknownId /\ req[r].code = 404
        /\ Cardinality(Sessions) = 2
        /\ \E d \in DOMAIN chunkStore : DOMAIN chunkStore[d] # {}

\* C13: create_chunk with all fields sent and a file_id that has no session
\* answers 404 and creates no directory, no chunk file, no session record and
\* no job.
C13_UnknownSessionTouchesNothing ==
    [][\A r \in Reqs :
          (req[r].pc = "idle" /\ req'[r].op = "chunk" /\ req'[r].file_id # Missing
              /\ req'[r].file_id \notin DOMAIN redis) =>
              /\ req'[r].pc = "done" /\ req'[r].code = 404
              /\ chunkStore' = chunkStore /\ redis' = redis
              /\ queue' = queue /\ enqueued' = enqueued]_vars

\* C13 witness: a create_chunk for the unknown id was answered 404 while a
\* session with a stored chunk existed, and the id has no directory.
C13_Witness ==
    \E r \in Reqs :
        /\ req[r].op = "chunk" /\ req[r].file_id = UnknownId /\ req[r].code = 404
        /\ UnknownId \notin DOMAIN chunkStore
        /\ \E d \in DOMAIN chunkStore : DOMAIN chunkStore[d] # {}

\* C14: create_chunk with file_id, chunk_id or the file part missing answers
\* 400 and leaves the session store, the chunk store and the job queue as
\* they were.
C14_MissingFieldIs400 ==
    [][\A r \in Reqs :
          \A f \in {FirstId, UnknownId, Missing}, c \in ChunkIds \cup {Missing},
             p \in {PayloadOf(r), Missing} :
              ((f = <<>> \/ c = <<>> \/ p = <<>>) /\ CC_Start(r, f, c, p)) =>
                  /\ req'[r].pc = "done" /\ req'[r].code = 400
                  /\ redis' = redis /\ chunkStore' = chunkStore
                  /\ queue' = queue /\ enqueued' = enqueued]_vars

\* C14 witness: a create_chunk was answered 400 while a session with a stored
\* chunk existed.
C14_Witness ==
    \E r \in Reqs :
        /\ req[r].op = "chunk" /\ req[r].code = 400
        /\ \E d \in DOMAIN chunkStore : DOMAIN chunkStore[d] # {}

\* the chunk files on disk: (directory, name)
Blobs == UNION {{<<d, c>> : c \in DOMAIN chunkStore[d]} : d \in DOMAIN chunkStore}

\* C15: the step in which a create_chunk call saves its chunk adds no file
\* but the one named (file_id, chunk_id), which then holds the payload of this
\* call, also when the index was uploaded before; no other file changes, and
\* no other step of a request adds a file.
C15_OneBlobLastWriteWins ==
    [][\A r \in Reqs :
          /\ (req[r].pc = "save" /\ req'[r].pc = "read") =>
                LET f == req[r].file_id
                    c == req[r].chunk_id
                IN  /\ Blobs' \subseteq Blobs \cup {<<f, c>>}
                    /\ chunkStore'[f][c] = req[r].payload
                    /\ \A b \in Blobs \ {<<f, c>>} :
                          chunkStore'[b[1]][b[2]] = chunkStore[b[1]][b[2]]
          /\ ~(req[r].pc = "save" /\ req'[r].pc = "read") /\ req'[r] # req[r] =>
                Blobs' \subseteq Blobs]_vars

\* C15 witness: index 9 was uploaded by two calls; the file holds the payload
\* of the call that saved last.
C15_Witness ==
    \E r1, r2 \in Reqs :
        /\ r1 # r2
        /\ req[r1].op = "chunk" /\ req[r1].pc = "done" /\ req[r1].code = 201
        /\ req[r2].op = "chunk" /\ req[r2].pc = "read"
        /\ req[r1].file_id = req[r2].file_id
        /\ req[r1].chunk_id = <<"9">> /\ req[r2].chunk_id = <<"9">>
        /\ req[r2].file_id \in DOMAIN chunkStore
        /\ <<"9">> \in DOMAIN chunkStore[req[r2].file_id]
        /\ chunkStore[req[r2].file_id][<<"9">>] = PayloadOf(r2)

\* C16: the retry loop of create_chunk is bounded: a call whose commit is
\* rejected again after it has already retried answers with a conflict
\* error; it does not start one more attempt.
C16_RetryLoopBounded ==
    [][\A r \in Reqs :
          (req[r].pc = "exec" /\ req[r].retried /\ req[r].dirty) => req'[r].pc # "read"]_vars

SessionUnchanged(g) ==
    /\ g \in DOMAIN redis => (g \in DOMAIN redis' /\ redis'[g] = redis[g])
    /\ g \in DOMAIN chunkStore => (g \in DOMAIN chunkStore' /\ chunkStore'[g] = chunkStore[g])
    /\ g \in DOMAIN merged => (g \in DOMAIN merged' /\ merged'[g] = merged[g])
    /\ queue'[g] = queue[g]

\* C18: a step of a request or of a pipeline job for one session leaves every
\* other session as it was.
C18_SessionsIndependent ==
    [][\A g \in FileIds :
          /\ \A r \in Reqs :
                (req'[r].pc # req[r].pc /\ req'[r].file_id # g) => SessionUnchanged(g)
          /\ \A w \in Workers :
                (wk'[w] # wk[w] /\ wk[w].file_id # g /\ wk'[w].file_id # g) =>
                    SessionUnchanged(g)]_vars

\* the place of a status in Not Started, In Progress, Processing, Completed
StatusRank(status) ==
    IF status = NotStarted THEN 0
    ELSE IF status = <<"In Progress">> THEN 1
    ELSE IF status = Processing THEN 2
    ELSE IF status = Completed THEN 3
    ELSE 4

\* C19: no step takes the status of a session to an earlier one of
\* Not Started, In Progress, Processing, Completed, and no step changes a
\* status that is Completed.
C19_StatusOnlyForward ==
    [][\A f \in Sessions :
          /\ StatusRank(Status(f)') >= StatusRank(Status(f))
          /\ Status(f) = Completed => Status(f)' = Completed]_vars

\* C20: a job is queued or running for a session only after a commit has set
\* its status to Processing: none while the status is Not Started.
C20_NoJobBeforeCommit ==
    \A f \in Sessions :
        (queue[f] > 0 \/ \E w \in Workers : wk[w].pc # "idle" /\ wk[w].file_id = f) =>
            Status(f) # NotStarted

\* the step in which the merge of worker w succeeds: merge_chunks returns the path
MergeSucceeds(w) == wk[w].pc = "m_remove" /\ wk'[w].pc = "csv"

\* a chunk that worker w has listed is no longer in the directory
ListedGone(w) ==
    \E i \in 1..Len(wk[w].files) : wk[w].files[i] \notin DOMAIN Dir(wk[w].file_id)

\* the directory holds a file that worker w has not listed
ExtraFile(w) ==
    \E c \in DOMAIN Dir(wk[w].file_id) : \A i \in 1..Len(wk[w].files) : wk[w].files[i] # c

\* the step in which the merge of worker w fails after it has listed the
\* chunks: open of a chunk, os.remove or os.rmdir raises
MergeFails(w) ==
    /\ wk'[w] # wk[w]
    /\ \/ wk[w].pc = "m_write" /\ ListedGone(w)
       \/ wk[w].pc = "m_remove" /\ (ListedGone(w) \/ ExtraFile(w))

\* C21: in the step in which merge_chunks succeeds, the chunk directory of
\* the session goes away with every file in it, and the artifact, written
\* before, already holds every listed chunk (two lines each).
C21_ChunksDeletedAfterMerge ==
    [][\A w \in Workers :
          LET f == wk[w].file_id
          IN  /\ MergeSucceeds(w) =>
                    /\ f \in DOMAIN merged /\ merged' = merged
                    /\ Len(merged[f]) = 2 * Len(wk[w].files)
                    /\ f \notin DOMAIN chunkStore'
              /\ (wk'[w] # wk[w] /\ ~(wk[w].pc = "m_remove")) => chunkStore' = chunkStore]_vars

\* C21 witness: a merge of two chunks has succeeded; the directory is gone
\* and the artifact holds four lines.
C21_Witness ==
    \E w \in Workers :
        /\ wk[w].pc = "csv" /\ Len(wk[w].files) = 2
        /\ wk[w].file_id \notin DOMAIN chunkStore
        /\ Len(merged[wk[w].file_id]) = 4

\* the step in which worker w takes a job for session f from the queue
JobTaken(w, f) == wk[w].pc = "idle" /\ queue'[f] = queue[f] - 1

\* C22: a job that finds no chunk file for its session (the directory is
\* missing or empty) ends at the merge: nothing is inserted, no artifact is
\* written and the session record, its status included, is not written.
C22_NoChunksAbortsJob ==
    [][\A w \in Workers, f \in FileIds :
          (JobTaken(w, f) /\ (f \notin DOMAIN chunkStore \/ DOMAIN chunkStore[f] = {})) =>
              /\ wk'[w].pc = "idle"
              /\ mongo' = mongo /\ merged' = merged /\ redis' = redis]_vars

\* C22 witness: two jobs were queued for a session and both have ended; the
\* first merged and removed the chunks, the directory is now an empty one.
C22_Witness ==
    \E f \in Sessions :
        /\ enqueued[f] = 2 /\ queue[f] = 0
        /\ \A w \in Workers : wk[w].pc = "idle"
        /\ f \in touched
        /\ f \in DOMAIN chunkStore /\ DOMAIN chunkStore[f] = {}

\* C23: when merge_chunks fails after it has listed the chunks, no file, whole
\* or partial, is at the artifact path of the session.
C23_ArtifactAtomic ==
    [][\A w \in Workers : MergeFails(w) => wk[w].file_id \notin DOMAIN merged']_vars

\* C24: when merge_chunks fails after it has listed the chunks, the chunk
\* directory of the session is as it was before the step: no listed chunk
\* has been removed.
C24_FailedMergeKeepsChunks ==
    [][\A w \in Workers :
          MergeFails(w) =>
              /\ chunkStore' = chunkStore
              /\ \A i \in 1..Len(wk[w].files) : wk[w].files[i] \in DOMAIN Dir(wk[w].file_id)']_vars

\* C25: a job whose merge fails ends there: in that step nothing is inserted
\* and the session record is not written, so a status Processing stays.
C25_FailedMergeLeavesRecord ==
    [][\A w \in Workers :
          /\ MergeFails(w) =>
                wk'[w].pc = "idle" /\ mongo' = mongo /\ redis' = redis
          /\ \A f \in FileIds :
                (JobTaken(w, f) /\ wk'[w].pc # "m_write") =>
                    wk'[w].pc = "idle" /\ mongo' = mongo /\ redis' = redis]_vars

\* C25 witness: the only job of a session has ended without a write to the
\* record, which reads Processing; its chunks were removed but a later chunk
\* is in the directory, and nothing was inserted.
C25_Witness ==
    \E f \in Sessions :
        /\ enqueued[f] = 1 /\ queue[f] = 0
        /\ \A w \in Workers : wk[w].pc = "idle"
        /\ f \notin touched
        /\ Status(f) = Processing
        /\ f \in DOMAIN merged
        /\ mongo = <<>>

\* batch i of the data rows: rows (i - 1) * CHUNK_SIZE + 1 .. i * CHUNK_SIZE
BatchRows(rows, i) ==
    SubSeq(rows, (i - 1) * CHUNK_SIZE + 1,
           IF i * CHUNK_SIZE < Len(rows) THEN i * CHUNK_SIZE ELSE Len(rows))

BatchCount(rows) == (Len(rows) + CHUNK_SIZE - 1) \div CHUNK_SIZE

RECURSIVE RowsKept(_, _, _)
\* the rows of batches 1..n whose insert did not fail, in order
RowsKept(rows, bad, n) ==
    IF n = 0 THEN <<>>
    ELSE RowsKept(rows, bad, n - 1) \o (IF n \in bad THEN <<>> ELSE BatchRows(rows, n))

\* the last n entries of a sequence
LastRows(seq, n) == SubSeq(seq, Len(seq) - n + 1, Len(seq))

\* C26: when the insert of some batches fails, the job still goes through
\* every batch of the artifact: the rows of each batch whose insert did not
\* fail are appended to the catalog, in order, whatever failed before it, the
\* rows already there stay, and the job goes on to the status update.
C26_BatchFailureDoesNotStop ==
    [][\A w \in Workers :
          (wk[w].pc = "csv" /\ wk'[w].pc = "u_write") =>
              LET rows == Tail(merged[wk[w].file_id])
              IN  mongo' = mongo \o RowsKept(rows, wk'[w].failed, BatchCount(rows))]_vars

\* C26 witness: the insert of the first of two batches failed and the rows of
\* the second are in the catalog.
C26_Witness ==
    \E w \in Workers :
        /\ wk[w].pc = "u_write" /\ wk[w].failed = {1}
        /\ BatchCount(Tail(merged[wk[w].file_id])) = 2
        /\ mongo = BatchRows(Tail(merged[wk[w].file_id]), 2)

\* C27: the step that sets Completed is taken by a job whose merge has
\* succeeded and that has gone through every batch of its artifact (the
\* catalog ends with the rows of the batches whose insert did not fail); a
\* session in status Completed has an artifact.
C27_CompletedAfterMergeAndBatches ==
    [][/\ \A w \in Workers :
            (wk[w].pc = "u_write" /\ wk'[w].pc = "idle") =>
                LET f == wk[w].file_id
                    rows == Tail(merged[f])
                    kept == RowsKept(rows, wk[w].failed, BatchCount(rows))
                IN  /\ wk[w].path = "merged" /\ f \in DOMAIN merged
                    /\ Len(merged[f]) = 2 * Len(wk[w].files)
                    /\ Len(mongo) >= Len(kept) /\ LastRows(mongo, Len(kept)) = kept
       /\ \A f \in DOMAIN redis' :
            redis'[f].status = Completed => f \in DOMAIN merged']_vars

\* C27 witness: a session is Completed after a job merged its two chunks and
\* went through both batches, the insert of the second having failed.
C27_Witness ==
    \E f \in Sessions :
        /\ Status(f) = Completed /\ f \in touched
        /\ Len(merged[f]) = 4
        /\ mongo = BatchRows(Tail(merged[f]), 1)

\* the step in which worker w writes the status: hset of update_redis_metadata
StatusWritten(w) == wk[w].pc = "u_write" /\ wk'[w].pc = "idle"

\* C28: the status update creates no session record, and for an existing
\* session it changes the status field and no other field of the record.
C28_SetStatusChangesOnlyStatus ==
    [][\A w \in Workers :
          StatusWritten(w) =>
              LET f == wk[w].file_id
              IN  /\ DOMAIN redis' = DOMAIN redis
                  /\ \A g \in DOMAIN redis \ {f} : redis'[g] = redis[g]
                  /\ f \in DOMAIN redis =>
                        \A k \in DOMAIN redis[f] \ {"status"} :
                            redis'[f][k] = redis[f][k]]_vars

\* C29: once the status of a session is Processing or Completed, no
\* create_chunk request changes its record: a commit leaves chunks_uploaded
\* and status as they were.
C29_OnlyPipelineWritesAfterProcessing ==
    [][\A r \in Reqs :
          (Commits(r) /\ req[r].file_id \in Sessions
                      /\ Status(req[r].file_id) \in {Processing, Completed}) =>
              /\ ChunksUploaded(req[r].file_id)' = ChunksUploaded(req[r].file_id)
              /\ Status(req[r].file_id)' = Status(req[r].file_id)]_vars

\* C30: a job taken for a session whose chunks were already merged and
\* removed ends at the merge step: it inserts nothing, writes no artifact and
\* leaves the session record, its status included, as it was.
C30_RedeliveredJobFailsAtMerge ==
    [][\A w \in Workers, f \in FileIds :
          (JobTaken(w, f) /\ f \in DOMAIN merged /\ f \notin DOMAIN chunkStore) =>
              /\ wk'[w].pc = "idle"
              /\ mongo' = mongo /\ merged' = merged /\ redis' = redis]_vars

\* C30 witness: two jobs were enqueued for the session and both have ended;
\* the chunks are gone and the catalog holds the rows of the artifact once.
C30_Witness ==
    \E f \in Sessions :
        /\ enqueued[f] = 2 /\ queue[f] = 0
        /\ \A w \in Workers : wk[w].pc = "idle"
        /\ f \in DOMAIN merged /\ f \notin DOMAIN chunkStore
        /\ Status(f) = Completed
        /\ mongo = Tail(merged[f])

\* C31: no step deletes a session record or changes the file_id or the
\* total_chunks stored in it, whatever create_chunk transactions and
\* pipeline status updates are interleaved.
C31_IdAndTotalFixed ==
    [][\A f \in DOMAIN redis :
          /\ f \in DOMAIN redis'
          /\ redis'[f].file_id = redis[f].file_id
          /\ redis'[f].total_chunks = redis[f].total_chunks]_vars

\* C31 witness: a session of MaxTotal chunks whose record was written by a
\* pipeline job and by committed uploads still carries its id and its total.
C31_Witness ==
    \E f \in Sessions :
        /\ f \in touched /\ Status(f) = Completed
        /\ Cardinality(Committed(f)) >= 2
        /\ redis[f].file_id = f
        /\ redis[f].total_chunks = StrOfInt(MaxTotal)

\* the chunk indices sent to session f
SentIds(f) == {req[r].chunk_id : r \in ChunkReqs(f)}

\* every chunk of session f is in its directory: total_chunks files, one for
\* each index sent
AllChunksPresent(f) ==
    /\ Cardinality(DOMAIN Dir(f)) = TotalChunks(f)
    /\ DOMAIN Dir(f) = SentIds(f)

\* C32: when the total_chunks distinct indices of a session are uploaded, a
\* job taken for the session finds all total_chunks chunks in the chunk
\* store and lists them all for its merge.
C32_AllChunksPresentAtMerge ==
    [][\A w \in Workers, f \in FileIds :
          (JobTaken(w, f) /\ f \in Sessions /\ DistinctUploadsOnly(f)) =>
              /\ AllChunksPresent(f)
              /\ wk'[w].pc = "m_write" /\ Len(wk'[w].files) = TotalChunks(f)]_vars

\* the same for the first job only: no job has merged the session before
C32_FirstMergeComplete ==
    [][\A w \in Workers, f \in FileIds :
          (JobTaken(w, f) /\ f \in Sessions /\ DistinctUploadsOnly(f)
                          /\ f \notin DOMAIN merged) =>
              /\ AllChunksPresent(f)
              /\ wk'[w].pc = "m_write" /\ Len(wk'[w].files) = TotalChunks(f)]_vars

\* C33: the users collection holds at most one record per email, whatever
\* signup requests are interleaved.
C33_OneUserPerEmail ==
    \A i, j \in 1..Len(users) : users[i].email = users[j].email => i = j

\* a signup whose lookup runs when its email is registered is answered 409 and
\* inserts nothing
C33_SequentialSignupRejected ==
    [][\A r \in Reqs :
          (su[r].pc = "idle" /\ su'[r].pc # "idle" /\ su'[r].email # Missing
              /\ su'[r].password # Missing /\ FindOne(su'[r].email)) =>
                 su'[r].code = 409 /\ users' = users]_vars
====
